---- MODULE Spec2Model ----
(***************************************************************************)
(* Model of the activity-log workbook generator: make_xlsx.py (the field   *)
(* catalog, the Variables sheet, the Metadata sheet and the Data sheet      *)
(* renderer) and the filename probing loop of main.py.                      *)
(*                                                                          *)
(* A Python str is a sequence of one-character strings, so that len(),     *)
(* slicing, replace(), capitalize() and sorted(key=str.lower) are computed  *)
(* as Python computes them. A Python dict is a function whose domain is    *)
(* the set of its keys. xlsxwriter is modelled by the calls the code makes *)
(* on it: a worksheet is the set of cells, validations, column settings    *)
(* and tables it was handed.                                                *)
(***************************************************************************)
EXTENDS Integers, Sequences, FiniteSets, TLC

VARIABLES
    pool,           \* which fields.py the run imports (see FieldsPool)
    dicts,          \* heap of the cell_format dict objects, by reference
    field_dict,     \* the catalog returned by make_dict_of_fields
    file_def,       \* write_file's file_def (the wanted field names)
    metadata,       \* write_file argument: write the Metadata sheet
    conversions,    \* write_file argument: write the Conversion sheet
    data,           \* write_file argument: a table, or NoTable
    metadata_df,    \* write_file argument: a one-row table, or NoTable
    workbook,       \* the xlsxwriter Workbook: sheet names, hidden, closed
    meta_sheet,     \* the Metadata worksheet
    data_sheet,     \* the Data worksheet
    variable_sheet_obj, \* the Variable_sheet object and its worksheet
    ii,             \* make_xlsx: index of the column loop
    col_num,        \* make_xlsx: index of the data loop
    error,          \* the exception that ended the run, or "none"
    pc,             \* position of the write_file run
    existing,       \* main.py: the numbers N whose activity_log_N.xlsx exists
    i,              \* main.py: the probing counter
    path,           \* main.py: the selected number, 0 before selection
    ppc             \* position of the probing loop

vars == <<pool, dicts, field_dict, file_def, metadata, conversions, data,
          metadata_df, workbook, meta_sheet, data_sheet, variable_sheet_obj,
          ii, col_num, error, pc, existing, i, path, ppc>>

renderVars == <<pool, dicts, field_dict, file_def, metadata, conversions,
                data, metadata_df, workbook, meta_sheet, data_sheet,
                variable_sheet_obj, ii, col_num, error, pc>>

probeVars == <<existing, i, path, ppc>>

(***************************************************************************)
(* Bounds of the model.                                                     *)
(***************************************************************************)
MaxFields == 2      \* longest field-name list handed to write_file
MaxDataCols == 2    \* most columns of a supplied data table
MaxFiles == 6       \* largest N of an existing activity_log_N.xlsx
MaxCalls == 3       \* longest field-name list of the runs registering lists

(***************************************************************************)
(* Program constants.                                                       *)
(***************************************************************************)
DEFAULT_SIZE == 10
DefaultWidth == 20
title_row == 1
end_row == 20000
MaxMessage == 255
CutMessage == 252
MaxTitle == 32

start_row == title_row + 2
parameter_row == title_row + 1

(***************************************************************************)
(* Python str operations.                                                   *)
(***************************************************************************)
\* The characters the model uses, in code point order.
Ascii == <<" ", ".", "0", "1", "2", "3", "4", "5", "6", "7", "8", "9",
           "A", "B", "C", "D", "E", "F", "G", "H", "I", "J", "K", "L",
           "M", "N", "O", "P", "Q", "R", "S", "T", "U", "V", "W", "X",
           "Y", "Z", "_", "a", "b", "c", "d", "e", "f", "g", "h", "i",
           "j", "k", "l", "m", "n", "o", "p", "q", "r", "s", "t", "u",
           "v", "w", "x", "y", "z">>

Ord(c) == CHOOSE n \in 1..Len(Ascii) : Ascii[n] = c

UpperCase == <<"A", "B", "C", "D", "E", "F", "G", "H", "I", "J", "K", "L",
               "M", "N", "O", "P", "Q", "R", "S", "T", "U", "V", "W", "X",
               "Y", "Z">>
LowerCase == <<"a", "b", "c", "d", "e", "f", "g", "h", "i", "j", "k", "l",
               "m", "n", "o", "p", "q", "r", "s", "t", "u", "v", "w", "x",
               "y", "z">>

lower_char(c) ==
    IF \E n \in 1..Len(UpperCase) : UpperCase[n] = c
    THEN LowerCase[CHOOSE n \in 1..Len(UpperCase) : UpperCase[n] = c]
    ELSE c

upper_char(c) ==
    IF \E n \in 1..Len(LowerCase) : LowerCase[n] = c
    THEN UpperCase[CHOOSE n \in 1..Len(LowerCase) : LowerCase[n] = c]
    ELSE c

\* str.lower()
lower(s) == [n \in 1..Len(s) |-> lower_char(s[n])]

\* str.capitalize(): first character upper-cased, the rest lower-cased
capitalize(s) ==
    [n \in 1..Len(s) |-> IF n = 1 THEN upper_char(s[n]) ELSE lower_char(s[n])]

\* str.replace(' ', '_')
replace_space(s) == [n \in 1..Len(s) |-> IF s[n] = " " THEN "_" ELSE s[n]]

\* a < b for two str, as Python compares them (by code point, then length)
RECURSIVE str_less(_, _)
str_less(a, b) ==
    IF b = <<>> THEN FALSE
    ELSE IF a = <<>> THEN TRUE
    ELSE IF Ord(Head(a)) # Ord(Head(b)) THEN Ord(Head(a)) < Ord(Head(b))
    ELSE str_less(Tail(a), Tail(b))

\* A text of n characters whose content depends on the position.
Text(n) == [k \in 1..n |-> Ascii[3 + (k % 10)]]

\* Python dict helpers: d.pop(k, None) and d[k] = v on a copy.
dict_pop(d, k) == [j \in DOMAIN d \ {k} |-> d[j]]
dict_set(d, k, v) == [j \in DOMAIN d \cup {k} |-> IF j = k THEN v ELSE d[j]]
EmptyDict == [j \in {} |-> 0]
\* the truth value of a dict: an empty dict is false
is_empty(d) == DOMAIN d = {}

(***************************************************************************)
(* The str literals of the program.                                         *)
(***************************************************************************)
title == <<"t", "i", "t", "l", "e">>
abstract == <<"a", "b", "s", "t", "r", "a", "c", "t">>
pi_name == <<"p", "i", "_", "n", "a", "m", "e">>
pi_email == <<"p", "i", "_", "e", "m", "a", "i", "l">>
pi_institution == <<"p", "i", "_", "i", "n", "s", "t", "i", "t", "u", "t", "i", "o", "n">>
pi_address == <<"p", "i", "_", "a", "d", "d", "r", "e", "s", "s">>
recordedBy == <<"r", "e", "c", "o", "r", "d", "e", "d", "B", "y">>
projectID == <<"p", "r", "o", "j", "e", "c", "t", "I", "D">>
cruiseNumber == <<"c", "r", "u", "i", "s", "e", "N", "u", "m", "b", "e", "r">>
vesselName == <<"v", "e", "s", "s", "e", "l", "N", "a", "m", "e">>
eventDate == <<"e", "v", "e", "n", "t", "D", "a", "t", "e">>
eventTime == <<"e", "v", "e", "n", "t", "T", "i", "m", "e">>
start_date == <<"s", "t", "a", "r", "t", "_", "d", "a", "t", "e">>
end_date == <<"e", "n", "d", "_", "d", "a", "t", "e">>
start_time == <<"s", "t", "a", "r", "t", "_", "t", "i", "m", "e">>
end_time == <<"e", "n", "d", "_", "t", "i", "m", "e">>
gearType == <<"g", "e", "a", "r", "T", "y", "p", "e">>
comment == <<"c", "o", "m", "m", "e", "n", "t">>
gear_type == <<"g", "e", "a", "r", "_", "t", "y", "p", "e">>
gear_type_spaced == <<"g", "e", "a", "r", " ", "t", "y", "p", "e">>
Table_ == <<"T", "a", "b", "l", "e", "_">>
DEFAULT_FONT == <<"C", "a", "l", "i", "b", "r", "i">>
Ellipsis == <<".", ".", ".">>
IndirectOpen == <<"=", "I", "N", "D", "I", "R", "E", "C", "T", "(", "\"">>
IndirectClose == <<"\"", ")">>

(***************************************************************************)
(* fields.fields: the static list of raw field descriptors. The module     *)
(* fields.py is not part of the sources, so the pool below is built from   *)
(* the descriptor contract: every descriptor has name and disp_name, and   *)
(* valid, cell_format, width and long_list are optional.                   *)
(***************************************************************************)
MetadataKeys == <<title, abstract, pi_name, pi_email, pi_institution,
                  pi_address, recordedBy, projectID, cruiseNumber,
                  vesselName>>

ValidAny(t, m) ==
    [validate |-> "any", input_title |-> t, input_message |-> m]

ValidList(src, t, m) ==
    [validate |-> "list", source |-> src, input_title |-> t,
     input_message |-> m]

\* The descriptor of the k-th metadata field in pool p: its prompt is longer
\* than 255 characters, 255 characters long, short, or it has no validation
\* at all. In pool 0 every prompt is short.
MetadataDescriptor(k, p) ==
    LET base == [name |-> MetadataKeys[k],
                 disp_name |-> capitalize(MetadataKeys[k])]
        shape == IF p = 0 THEN 2 ELSE (k + p) % 4
        v == IF shape = 0 THEN dict_set(base, "valid",
                                        ValidAny(Text(5), Text(300)))
             ELSE IF shape = 1 THEN dict_set(base, "valid",
                                             ValidAny(Text(5), Text(255)))
             ELSE IF shape = 2 THEN dict_set(base, "valid",
                                             ValidAny(Text(5), Text(9)))
             ELSE base
    IN  IF k % 2 = 0 THEN dict_set(v, "cell_format", [bold |-> "True"])
        ELSE v

DataDescriptors ==
    << [name |-> eventDate,
        disp_name |-> <<"E", "v", "e", "n", "t", " ", "D", "a", "t", "e">>,
        valid |-> ValidAny(Text(40), Text(300))],
       [name |-> eventTime,
        disp_name |-> <<"T", "i", "m", "e">>,
        valid |-> ValidAny(Text(32), Text(255)),
        cell_format |-> [num_format |-> "hh:mm:ss", font_name |-> <<"A">>,
                         font_size |-> 12],
        width |-> 13,
        long_list |-> FALSE],
       [name |-> gearType,
        disp_name |-> <<"G", "e", "a", "r">>,
        valid |-> ValidList(<< <<"b">>, <<"A", "c">>, <<"a">>, <<"B">>,
                               <<"A">> >>, Text(4), Text(9)),
        cell_format |-> [bold |-> "True"],
        width |-> 15,
        long_list |-> TRUE],
       [name |-> comment,
        disp_name |-> <<"C", "o", "m", "m", "e", "n", "t">>] >>

\* Two more long_list fields, whose keys differ from each other only by a
\* space against an underscore.
ListDescriptors ==
    << [name |-> gear_type,
        disp_name |-> <<"G", "t">>,
        valid |-> ValidList(<< <<"t">>, <<"N">> >>, Text(4), Text(9)),
        long_list |-> TRUE],
       [name |-> gear_type_spaced,
        disp_name |-> <<"G", " ", "t">>,
        valid |-> ValidList(<< <<"n">> >>, Text(4), Text(9)),
        width |-> 12,
        long_list |-> TRUE] >>

\* The pool whose catalog holds the fields of ListDescriptors as well.
ListPool == 5

FieldsPool(p) ==
    [k \in 1..Len(MetadataKeys) |->
        MetadataDescriptor(k, IF p = ListPool THEN 0 ELSE p)]
        \o DataDescriptors
        \o (IF p = ListPool THEN ListDescriptors ELSE <<>>)

\* fields.fields of the run
fields == FieldsPool(pool)

\* The field names the runs of the model ask for.
DataKeys == {eventDate, gearType, comment}

\* The field names of the runs that register several lists.
ListKeys == {gearType, gear_type, gear_type_spaced, comment}

(***************************************************************************)
(* class Field. cell_format holds a reference into dicts: Python hands the *)
(* dict object itself to the Field, and the default argument {} of          *)
(* __init__ is one object shared by every Field built without cell_format. *)
(***************************************************************************)
DefaultRef == 0

Field(name, disp_name) ==
    [name |-> name, disp_name |-> disp_name, cell_format |-> DefaultRef,
     validation |-> EmptyDict, long_list |-> FALSE, width |-> DefaultWidth]

set_validation(f, validation) == [f EXCEPT !.validation = validation]
set_cell_format(f, ref) == [f EXCEPT !.cell_format = ref]
set_width(f, width) == [f EXCEPT !.width = width]
set_long_list(f, long_list) == [f EXCEPT !.long_list = long_list]

(***************************************************************************)
(* make_dict_of_fields                                                      *)
(***************************************************************************)
\* The loop body without its else branch: the width of Field.__init__ stays.
NewFieldNoDefaultWidth(field, n) ==
    LET new0 == Field(field.name, field.disp_name)
        new1 == IF "valid" \in DOMAIN field
                THEN set_validation(new0, field.valid) ELSE new0
        new2 == IF "cell_format" \in DOMAIN field
                THEN set_cell_format(new1, n) ELSE new1
        new3 == IF "width" \in DOMAIN field
                THEN set_width(new2, field.width) ELSE new2
    IN  IF "long_list" \in DOMAIN field
        THEN set_long_list(new3, field.long_list) ELSE new3

\* The loop body: the Field built from descriptor number n.
NewField(field, n) ==
    LET new0 == Field(field.name, field.disp_name)
        new1 == IF "valid" \in DOMAIN field
                THEN set_validation(new0, field.valid) ELSE new0
        new2 == IF "cell_format" \in DOMAIN field
                THEN set_cell_format(new1, n) ELSE new1
        new3 == IF "width" \in DOMAIN field
                THEN set_width(new2, field.width)
                ELSE set_width(new2, Len(field.disp_name))
    IN  IF "long_list" \in DOMAIN field
        THEN set_long_list(new3, field.long_list) ELSE new3

\* field_dict[field['name']] = new: a later descriptor of the same name wins.
LastDescriptor(fs, key) ==
    CHOOSE n \in 1..Len(fs) :
        /\ fs[n].name = key
        /\ \A m \in (n + 1)..Len(fs) : fs[m].name # key

make_dict_of_fields(fs) ==
    [key \in {fs[n].name : n \in 1..Len(fs)} |->
        NewField(fs[LastDescriptor(fs, key)], LastDescriptor(fs, key))]

\* The dict objects the catalog refers to: the shared default of
\* Field.__init__ and the cell_format dict of each descriptor.
CatalogDicts(fs, heap) ==
    [r \in {DefaultRef} \cup {n \in 1..Len(fs) : "cell_format" \in DOMAIN fs[n]}
        |-> IF r = DefaultRef THEN heap[DefaultRef] ELSE fs[r].cell_format]

\* A Field as the program sees it: its cell_format dereferenced.
FieldValue(f, heap) == [f EXCEPT !.cell_format = heap[f.cell_format]]

(***************************************************************************)
(* xlsxwriter worksheets, as the calls made on them.                        *)
(***************************************************************************)
NoCells == [p \in {} |-> 0]

Worksheet ==
    [cells |-> NoCells,     \* <<row, col>> -> [value, format]
     validations |-> <<>>,  \* the data_validation calls, in order
     columns |-> NoCells,   \* col -> the last set_column of that column
     rows |-> NoCells,      \* row -> the last set_row of that row
     tables |-> <<>>,       \* the add_table calls, in order
     merges |-> <<>>,       \* the merge_range calls, in order
     panes |-> <<>>,        \* freeze_panes(row, col), <<>> when not frozen
     hidden |-> FALSE]      \* hide()

write(sheet, row, col, value, format) ==
    [sheet EXCEPT !.cells =
        dict_set(@, <<row, col>>, [value |-> value, format |-> format])]

data_validation(sheet, first_row, first_col, last_row, last_col, options) ==
    [sheet EXCEPT !.validations =
        Append(@, [first_row |-> first_row, first_col |-> first_col,
                   last_row |-> last_row, last_col |-> last_col,
                   options |-> options])]

set_column(sheet, col, width, cell_format, hide) ==
    [sheet EXCEPT !.columns =
        dict_set(@, col, [width |-> width, cell_format |-> cell_format,
                          hidden |-> hide])]

set_row(sheet, row, height, cell_format, hide) ==
    [sheet EXCEPT !.rows =
        dict_set(@, row, [height |-> height, cell_format |-> cell_format,
                          hidden |-> hide])]

add_table(sheet, first_row, first_col, last_row, last_col, name) ==
    [sheet EXCEPT !.tables =
        Append(@, [name |-> name, header_row |-> FALSE,
                   first_row |-> first_row, first_col |-> first_col,
                   last_row |-> last_row, last_col |-> last_col])]

\* Workbook.add_worksheet(name)
add_worksheet(wb, name) == [wb EXCEPT !.sheets = Append(@, name)]

\* The marker for "no format object" and "no value" in a call.
NoFormat == "None"

(***************************************************************************)
(* sorted(parameter_list, key=str.lower): a stable sort.                    *)
(***************************************************************************)
\* x placed behind every element whose key is not greater than its own
insert_sorted(x, s) ==
    LET n == Cardinality({k \in 1..Len(s) :
                             ~ str_less(lower(x), lower(s[k]))})
    IN  SubSeq(s, 1, n) \o <<x>> \o SubSeq(s, n + 1, Len(s))

RECURSIVE sorted_lower(_)
sorted_lower(l) ==
    IF l = <<>> THEN <<>>
    ELSE insert_sorted(l[Len(l)], sorted_lower(SubSeq(l, 1, Len(l) - 1)))

(***************************************************************************)
(* class Variable_sheet                                                     *)
(***************************************************************************)
\* __init__: without the add_worksheet (used to show what the claims about
\* the Variables sheet rest on)
Variable_sheet_unregistered(wb) ==
    [workbook |-> wb,
     obj |-> [name |-> "Variables",
              sheet |-> [Worksheet EXCEPT !.hidden = TRUE],
              current_column |-> 0]]

\* __init__: adds the hidden worksheet to the workbook, whatever the fields
Variable_sheet(wb) ==
    [workbook |-> add_worksheet(wb, "Variables"),
     obj |-> [name |-> "Variables",
              sheet |-> [Worksheet EXCEPT !.hidden = TRUE],
              current_column |-> 0]]

table_name(variable) == Table_ \o capitalize(replace_space(variable))

\* add_row: the object after the call, and the ref it returns
add_row(self, variable, parameter_list) ==
    LET col == self.current_column
        name == table_name(variable)
        s1 == write(self.sheet, 0, col, variable, NoFormat)
        s2 == add_table(s1, 1, col, 1 + Len(parameter_list), col, name)
        pars == sorted_lower(parameter_list)
        s3 == [s2 EXCEPT !.cells =
                 [p \in DOMAIN @ \cup {<<1 + (k - 1), col>> : k \in 1..Len(pars)}
                    |-> IF p[2] = col /\ p[1] >= 1 /\ p[1] <= Len(pars)
                        THEN [value |-> pars[p[1]], format |-> NoFormat]
                        ELSE @[p]]]
    IN  [self |-> [self EXCEPT !.sheet = s3, !.current_column = col + 1],
         ref |-> IndirectOpen \o name \o IndirectClose]

(***************************************************************************)
(* write_metadata                                                           *)
(***************************************************************************)
metadata_fields == MetadataKeys

\* valid_copy with its input_message cut to Excel's limit
cut_message(valid_copy) ==
    IF Len(valid_copy.input_message) > MaxMessage
    THEN [valid_copy EXCEPT !.input_message =
             SubSeq(@, 1, CutMessage) \o Ellipsis]
    ELSE valid_copy

\* One turn of the loop over metadata_fields, for row number row (0-based):
\* the sheet after it, and whether it raised.
metadata_row(sheet, catalog, heap, df, row) ==
    LET mfield == metadata_fields[row + 1]
        field == catalog[mfield]
        s1 == write(sheet, row, 0, field.disp_name, "parameter_format")
        s2 == write(s1, row, 1, field.name, "parameter_format")
        s3 == set_column(s2, 1, NoFormat, NoFormat, TRUE)
        \* metadata_df[mfield][0] raises when the table has no such column
        found == df.is_frame /\ mfield \in DOMAIN df.row
        s4 == IF found THEN write(s3, row, 2, df.row[mfield], "input_format")
              ELSE write(s3, row, 2, <<>>, "input_format")
        skipped == df.is_frame /\ ~ found      \* the except branch: continue
        valid_copy == cut_message(field.validation)
        s5 == data_validation(s4, row, 2, row, 2, valid_copy)
        s6 == IF ~ is_empty(heap[field.cell_format])
              THEN set_row(s5, row, row, heap[field.cell_format], FALSE)
              ELSE s5
        s7 == IF ~ is_empty(field.validation) THEN s6 ELSE s4
        height == IF row = 0 THEN 30 ELSE IF row = 1 THEN 150 ELSE 15
    IN  IF mfield \notin DOMAIN catalog
        THEN [sheet |-> sheet, raised |-> "KeyError"]
        ELSE IF skipped
        THEN [sheet |-> s4, raised |-> "none"]
        ELSE IF ~ is_empty(field.validation)
                /\ "input_message" \notin DOMAIN field.validation
        THEN [sheet |-> s4, raised |-> "KeyError"]
        ELSE [sheet |-> set_row(s7, row, height, NoFormat, FALSE),
              raised |-> "none"]

RECURSIVE metadata_rows(_, _, _, _, _)
metadata_rows(sheet, catalog, heap, df, row) ==
    IF row = Len(metadata_fields)
    THEN [sheet |-> sheet, raised |-> "none"]
    ELSE LET r == metadata_row(sheet, catalog, heap, df, row)
         IN  IF r.raised # "none" THEN r
             ELSE metadata_rows(r.sheet, catalog, heap, df, row + 1)

write_metadata(catalog, heap, df) ==
    LET s == set_column(set_column(Worksheet, 0, 30, NoFormat, FALSE),
                        2, 50, NoFormat, FALSE)
    IN  metadata_rows(s, catalog, heap, df, 0)

(***************************************************************************)
(* make_xlsx: the loop over file_def['fields']                              *)
(***************************************************************************)
\* field.cell_format after the two default entries were stored in it
with_font(cell_format) ==
    LET f1 == IF "font_name" \in DOMAIN cell_format THEN cell_format
              ELSE dict_set(cell_format, "font_name", DEFAULT_FONT)
    IN  IF "font_size" \in DOMAIN f1 THEN f1
        ELSE dict_set(f1, "font_size", DEFAULT_SIZE)

\* valid_copy with its input_title cut to Excel's limit
cut_title(valid_copy) ==
    IF Len(valid_copy.input_title) > MaxTitle
    THEN [valid_copy EXCEPT !.input_title = SubSeq(@, 1, MaxTitle)]
    ELSE valid_copy

\* The validation part of one turn, for a long_list field. Neither Field
\* nor make_dict_of_fields ever stores None, so "validation is not None"
\* holds for every Field of a catalog.
long_list_validation(sheet, vsheet, field, col) ==
    IF "source" \notin DOMAIN field.validation
    THEN [sheet |-> sheet, vsheet |-> vsheet, raised |-> "KeyError"]
    ELSE LET added == add_row(vsheet, field.name, field.validation.source)
             valid_copy == dict_set(dict_pop(field.validation, "source"),
                                    "value", added.ref)
         IN  IF "input_message" \notin DOMAIN valid_copy
             THEN [sheet |-> sheet, vsheet |-> added.self,
                   raised |-> "KeyError"]
             ELSE [sheet |-> data_validation(sheet, start_row, col, end_row,
                                             col, valid_copy),
                   vsheet |-> added.self, raised |-> "none"]

\* The validation part of one turn, for any other field.
plain_validation(sheet, vsheet, field, col) ==
    IF \/ "input_message" \notin DOMAIN field.validation
       \/ "input_title" \notin DOMAIN field.validation
    THEN [sheet |-> sheet, vsheet |-> vsheet, raised |-> "KeyError"]
    ELSE [sheet |-> data_validation(sheet, start_row, col, end_row, col,
                        cut_title(cut_message(field.validation))),
          vsheet |-> vsheet, raised |-> "none"]

\* One turn of the loop, for column col (0-based).
column(sheet, vsheet, heap, catalog, names, col) ==
    IF names[col + 1] \notin DOMAIN catalog
    THEN [sheet |-> sheet, vsheet |-> vsheet, heap |-> heap,
          raised |-> "KeyError"]
    ELSE
    LET field == catalog[names[col + 1]]
        s1 == write(sheet, title_row, col, field.disp_name, "field_format")
        s2 == write(s1, parameter_row, col, field.name, NoFormat)
        v == IF field.long_list
             THEN long_list_validation(s2, vsheet, field, col)
             ELSE plain_validation(s2, vsheet, field, col)
        fmt == with_font(heap[field.cell_format])
    IN  IF v.raised # "none"
        THEN [sheet |-> v.sheet, vsheet |-> v.vsheet, heap |-> heap,
              raised |-> v.raised]
        ELSE [sheet |-> set_column(v.sheet, col, field.width, fmt, FALSE),
              vsheet |-> v.vsheet,
              heap |-> [heap EXCEPT ![field.cell_format] = fmt],
              raised |-> "none"]

(***************************************************************************)
(* make_xlsx: the optional data                                             *)
(***************************************************************************)
\* Worksheet.write_column: the values are written one cell after the other,
\* and the first value xlsxwriter cannot write (a NaN, an unsupported type)
\* raises, with the cells before it already written.
\* write_column as if a failing column wrote nothing at all
written_none_on_raise(values) ==
    IF \A k \in 1..Len(values) : values[k].ok THEN Len(values) ELSE 0

written_before_raise(values) ==
    IF \A k \in 1..Len(values) : values[k].ok THEN Len(values)
    ELSE (CHOOSE k \in 1..Len(values) :
             /\ ~ values[k].ok
             /\ \A j \in 1..(k - 1) : values[j].ok) - 1

\* The n first values written from (row, col) down.
write_cells(sheet, row, col, values, format, n) ==
    [sheet EXCEPT !.cells =
        [p \in DOMAIN @ \cup {<<row + (k - 1), col>> : k \in 1..n}
           |-> IF p[2] = col /\ p[1] >= row /\ p[1] < row + n
               THEN [value |-> values[p[1] - row + 1], format |-> format]
               ELSE @[p]]]

write_column(sheet, row, col, values, format) ==
    LET n == written_before_raise(values)
    IN  [sheet |-> write_cells(sheet, row, col, values, format, n),
         raised |-> IF n < Len(values) THEN "TypeError" ELSE "none"]

\* The format chosen by the name of the data column.
column_format(field) ==
    IF field \in {eventDate, start_date, end_date} THEN "date_format"
    ELSE IF field \in {eventTime, start_time, end_time} THEN "time_format"
    ELSE NoFormat

\* One turn of "for col_num, field in enumerate(data)": the column's position
\* in the table is the sheet column written; the exception is swallowed.
data_column(sheet, table, num) ==
    write_column(sheet, start_row, num, table.values[num + 1],
                 column_format(table.columns[num + 1])).sheet

paste_hint == "When pasting only use 'paste special' / 'paste only', selecting numbers and/or text "

\* The rest of make_xlsx, from the header to the hidden parameter row.
finish_sheet(sheet, disp_name) ==
    LET s1 == write(sheet, 0, 0, disp_name, "header_format")
        s2 == [write(s1, 0, 1, paste_hint, "header_format")
                 EXCEPT !.merges = Append(@, <<0, 1, 0, 7>>)]
        s3 == set_row(s2, 0, 24, NoFormat, FALSE)
        s4 == [s3 EXCEPT !.panes = <<start_row, 0>>]
    IN  set_row(s4, parameter_row, NoFormat, NoFormat, TRUE)

\* write_conversion: the sheet's content is fixed text and formulas
write_conversion(wb) == add_worksheet(wb, "Conversion")

(***************************************************************************)
(* The inputs of a run.                                                     *)
(***************************************************************************)
\* A value that is no DataFrame (write_file's default, False).
NoTable == [is_frame |-> FALSE, columns |-> <<>>, values |-> <<>>]

\* The field-name lists of at most n names of the catalog's data fields.
FieldLists(n) == UNION {[1..m -> DataKeys] : m \in 0..n}

\* The field-name lists of at most n names of ListKeys.
ListFieldLists(n) == UNION {[1..m -> ListKeys] : m \in 0..n}

DataColumnNames == {eventDate, eventTime, gearType}

\* The tables of at most n columns of two rows each. The value in row k of
\* the column named c is [of |-> c, row |-> k]; at most one value of the
\* table is one xlsxwriter refuses to write (ok = FALSE).
DataTables(n) ==
    {[is_frame |-> TRUE,
      columns |-> cols,
      values |-> [c \in 1..Len(cols) |->
                    [k \in 1..2 |-> [of |-> cols[c], row |-> k,
                                     ok |-> ~ (c = bad[1] /\ k = bad[2])]]]] :
        cols \in {s \in UNION {[1..m -> DataColumnNames] : m \in 0..n} :
                     \A a, b \in 1..Len(s) : a # b => s[a] # s[b]},
        bad \in (0..n) \X (1..2)} 

\* The one-row metadata tables: none, every key, each half of the keys.
MetadataTable(keys) ==
    [is_frame |-> TRUE,
     row |-> [key \in keys |-> <<"v">> \o key]]

NoMetadataTable == [is_frame |-> FALSE, row |-> NoCells]

MetadataTables ==
    {NoMetadataTable,
     MetadataTable({MetadataKeys[k] : k \in 1..Len(MetadataKeys)}),
     MetadataTable({MetadataKeys[k] : k \in {1, 2, 3, 4, 5}}),
     MetadataTable({MetadataKeys[k] : k \in {6, 7, 8, 9, 10}})}

NoObject == [name |-> "", sheet |-> Worksheet, current_column |-> 0]
NoWorkbook == [sheets |-> <<>>, closed |-> FALSE]

(***************************************************************************)
(* The run of main.py from make_dict_of_fields on, with write_file called  *)
(* on any field list and any table.                                         *)
(***************************************************************************)
InitCommon ==
    /\ dicts = [r \in {DefaultRef} |-> EmptyDict]
    /\ field_dict = NoCells
    /\ workbook = NoWorkbook
    /\ meta_sheet = Worksheet
    /\ data_sheet = Worksheet
    /\ variable_sheet_obj = NoObject
    /\ ii = 0
    /\ col_num = 0
    /\ error = "none"

InitNoProbe ==
    /\ existing = {}
    /\ i = 1
    /\ path = 0
    /\ ppc = "idle"

Init ==
    /\ InitCommon
    /\ InitNoProbe
    /\ pc = "start"
    /\ pool = 0
    /\ file_def \in {[disp_name |-> <<>>, fields |-> names] :
                        names \in FieldLists(MaxFields)}
    /\ metadata \in BOOLEAN
    /\ conversions \in BOOLEAN
    /\ data \in {NoTable} \cup DataTables(MaxDataCols)
    /\ metadata_df = NoMetadataTable

InitMetadata ==
    /\ InitCommon
    /\ InitNoProbe
    /\ pc = "start"
    /\ pool \in 1..4
    /\ file_def \in {[disp_name |-> <<>>, fields |-> names] :
                        names \in FieldLists(1)}
    /\ metadata = TRUE
    /\ conversions \in BOOLEAN
    /\ data \in {NoTable} \cup {t \in DataTables(1) :
                                  /\ t.columns = <<eventDate>>
                                  /\ ~ t.values[1][2].ok}
    /\ metadata_df \in MetadataTables

\* The runs on the catalog of ListPool: the field list is any list of
\* long_list fields and of the field without validation.
InitVariables ==
    /\ InitCommon
    /\ InitNoProbe
    /\ pc = "start"
    /\ pool = ListPool
    /\ file_def \in {[disp_name |-> <<>>, fields |-> names] :
                        names \in ListFieldLists(MaxCalls)}
    /\ metadata = FALSE
    /\ conversions \in BOOLEAN
    /\ data \in {NoTable} \cup {t \in DataTables(1) :
                                  t.columns = <<gearType>>}
    /\ metadata_df = NoMetadataTable

\* Where make_xlsx goes on after k columns were written.
after_columns(k) ==
    IF k < Len(file_def.fields) THEN "columns"
    ELSE IF data.is_frame /\ Len(data.columns) > 0 THEN "data"
    ELSE "finish"

\* main.py: field_dict = mx.make_dict_of_fields()
MakeDictOfFields ==
    /\ pc = "start"
    /\ field_dict' = make_dict_of_fields(fields)
    /\ dicts' = CatalogDicts(fields, dicts)
    /\ pc' = "write_file"
    /\ UNCHANGED <<pool, file_def, metadata, conversions, data, metadata_df,
                   workbook, meta_sheet, data_sheet, variable_sheet_obj, ii,
                   col_num, error, probeVars>>

\* write_file, and make_xlsx up to its loop over the fields: the workbook,
\* the Metadata sheet when asked for, the Data sheet, the Variable_sheet.
BeginXlsx ==
    /\ pc = "write_file"
    /\ LET m == write_metadata(field_dict, dicts, metadata_df)
           wb1 == IF metadata THEN add_worksheet(NoWorkbook, "Metadata")
                  ELSE NoWorkbook
           vs == Variable_sheet(add_worksheet(wb1, "Data"))
       IN  IF metadata /\ m.raised # "none"
           THEN /\ workbook' = wb1
                /\ meta_sheet' = m.sheet
                /\ error' = m.raised
                /\ pc' = "aborted"
                /\ UNCHANGED <<data_sheet, variable_sheet_obj>>
           ELSE /\ workbook' = vs.workbook
                /\ meta_sheet' = IF metadata THEN m.sheet ELSE meta_sheet
                /\ data_sheet' = Worksheet
                /\ variable_sheet_obj' = vs.obj
                /\ pc' = after_columns(0)
                /\ UNCHANGED error
    /\ ii' = 0
    /\ col_num' = 0
    /\ UNCHANGED <<pool, dicts, field_dict, file_def, metadata, conversions,
                   data, metadata_df, probeVars>>

\* One turn of the loop over file_def['fields'] that runs to its end.
WriteColumn ==
    /\ pc = "columns"
    /\ LET r == column(data_sheet, variable_sheet_obj, dicts, field_dict,
                       file_def.fields, ii)
       IN  /\ r.raised = "none"
           /\ data_sheet' = r.sheet
           /\ variable_sheet_obj' = r.vsheet
           /\ dicts' = r.heap
    /\ ii' = ii + 1
    /\ pc' = after_columns(ii + 1)
    /\ UNCHANGED <<pool, field_dict, file_def, metadata, conversions, data,
                   metadata_df, workbook, meta_sheet, col_num, error,
                   probeVars>>

\* One turn of the loop that raises: the exception leaves make_xlsx and
\* write_file, and the workbook is never closed.
WriteColumnRaises ==
    /\ pc = "columns"
    /\ LET r == column(data_sheet, variable_sheet_obj, dicts, field_dict,
                       file_def.fields, ii)
       IN  /\ r.raised # "none"
           /\ data_sheet' = r.sheet
           /\ variable_sheet_obj' = r.vsheet
           /\ dicts' = r.heap
           /\ error' = r.raised
    /\ pc' = "aborted"
    /\ UNCHANGED <<pool, field_dict, file_def, metadata, conversions, data,
                   metadata_df, workbook, meta_sheet, ii, col_num, probeVars>>

\* One turn of the loop over the columns of data.
WriteData ==
    /\ pc = "data"
    /\ data_sheet' = data_column(data_sheet, data, col_num)
    /\ col_num' = col_num + 1
    /\ pc' = IF col_num + 1 < Len(data.columns) THEN "data" ELSE "finish"
    /\ UNCHANGED <<pool, dicts, field_dict, file_def, metadata, conversions,
                   data, metadata_df, workbook, meta_sheet,
                   variable_sheet_obj, ii, error, probeVars>>

\* The header, the frozen panes, the hidden row, the Conversion sheet and
\* workbook.close().
Finish ==
    /\ pc = "finish"
    /\ data_sheet' = finish_sheet(data_sheet, file_def.disp_name)
    /\ workbook' = [(IF conversions THEN write_conversion(workbook)
                     ELSE workbook) EXCEPT !.closed = TRUE]
    /\ pc' = "closed"
    /\ UNCHANGED <<pool, dicts, field_dict, file_def, metadata, conversions,
                   data, metadata_df, meta_sheet, variable_sheet_obj, ii,
                   col_num, error, probeVars>>

Next ==
    \/ MakeDictOfFields
    \/ BeginXlsx
    \/ WriteColumn
    \/ WriteColumnRaises
    \/ WriteData
    \/ Finish

Spec == Init /\ [][Next]_vars

SpecMetadata == InitMetadata /\ [][Next]_vars

SpecVariables == InitVariables /\ [][Next]_vars

(***************************************************************************)
(* main.py: the probing of activity_log_N.xlsx                              *)
(***************************************************************************)
\* os.path.exists(f"{filename}_{n}.xlsx")
exists(n) == n \in existing

\* the counter stepping over a number (what the selection rests on)
skip_number(n) == n + 2

\* i += 1
next_number(n) == n + 1

InitProbe ==
    /\ InitCommon
    /\ pc = "idle"
    /\ pool = 0
    /\ file_def = [disp_name |-> <<>>, fields |-> <<>>]
    /\ metadata = TRUE
    /\ conversions = TRUE
    /\ data = NoTable
    /\ metadata_df = NoMetadataTable
    /\ existing \in SUBSET (1..MaxFiles)
    /\ i = 1
    /\ path = 0
    /\ ppc = "probing"

\* One turn of the while loop: the file exists
ProbeNext ==
    /\ ppc = "probing"
    /\ exists(i)
    /\ i' = next_number(i)
    /\ UNCHANGED <<existing, path, ppc, renderVars>>

\* The loop ends: path = f"{filename}_{i}.xlsx"
ProbeSelect ==
    /\ ppc = "probing"
    /\ ~ exists(i)
    /\ path' = i
    /\ ppc' = "selected"
    /\ UNCHANGED <<existing, i, renderVars>>

NextProbe ==
    \/ ProbeNext
    \/ ProbeSelect

\* A sequential program goes on running while it has a next statement.
SpecProbe == InitProbe /\ [][NextProbe]_vars /\ WF_vars(NextProbe)

(***************************************************************************)
(* Properties                                                               *)
(***************************************************************************)
names == file_def.fields

has_cell(sheet, row, col) == <<row, col>> \in DOMAIN sheet.cells
cell_value(sheet, row, col) == sheet.cells[<<row, col>>].value

\* The catalog exists: make_dict_of_fields has returned.
CatalogBuilt == pc \notin {"start", "idle"}

\* The field of column col (0-based) of the Data sheet.
field_of(col) == field_dict[names[col + 1]]

\* make_xlsx has ended: it closed the workbook, or an exception left it.
Ended == pc \in {"closed", "aborted"}

\* The turn of the column loop for column col has been run (to its end or
\* to the exception that ended the run).
Handled(col) ==
    /\ pc \in {"columns", "data", "finish", "closed", "aborted"}
    /\ col < Len(names)
    /\ \/ col < ii
       \/ pc = "aborted" /\ col = ii

\* The validations installed on column col of the Data sheet.
validations_of(col) ==
    {n \in 1..Len(data_sheet.validations) :
        data_sheet.validations[n].first_col = col}

dict_eq(a, b) == DOMAIN a = DOMAIN b /\ \A k \in DOMAIN a : a[k] = b[k]

\* C1: when make_xlsx has ended, column c of the Data sheet carries the
\* display name of the c-th wanted field in the title row and its key in the
\* parameter row, for every c, and these two rows hold nothing else.
C1_ColumnsFollowFieldList ==
    Ended =>
        /\ \A c \in 0..(Len(names) - 1) :
              /\ has_cell(data_sheet, title_row, c)
              /\ cell_value(data_sheet, title_row, c) = field_of(c).disp_name
              /\ has_cell(data_sheet, parameter_row, c)
              /\ cell_value(data_sheet, parameter_row, c) = names[c + 1]
        /\ \A p \in DOMAIN data_sheet.cells :
              p[1] \in {title_row, parameter_row} => p[2] < Len(names)

\* The same for the runs that close the workbook: every workbook written
\* has the columns of the field list, in its order.
ClosedColumnsFollowFieldList ==
    pc = "closed" =>
        /\ \A c \in 0..(Len(names) - 1) :
              /\ has_cell(data_sheet, title_row, c)
              /\ cell_value(data_sheet, title_row, c) = field_of(c).disp_name
              /\ has_cell(data_sheet, parameter_row, c)
              /\ cell_value(data_sheet, parameter_row, c) = names[c + 1]
        /\ \A p \in DOMAIN data_sheet.cells :
              p[1] \in {title_row, parameter_row} => p[2] < Len(names)

\* s holds the items of l, each as often as l does, in ascending order of
\* their lower-cased form.
IsSortedCopy(s, l) ==
    /\ Len(s) = Len(l)
    /\ \A x \in {l[k] : k \in 1..Len(l)} \cup {s[k] : k \in 1..Len(s)} :
          Cardinality({k \in 1..Len(l) : l[k] = x})
              = Cardinality({k \in 1..Len(s) : s[k] = x})
    /\ \A k \in 1..(Len(s) - 1) : ~ str_less(lower(s[k + 1]), lower(s[k]))

\* The cells of the Variables sheet that table t covers all hold a value.
TableFilled(t) ==
    \A r \in t.first_row..t.last_row :
        has_cell(variable_sheet_obj.sheet, r, t.first_col)

\* C2: the validation installed on the column of a long_list field has no
\* source, its value is =INDIRECT("<table name>"), and the cells the table
\* of that name covers on the Variables sheet hold exactly the field's
\* source list sorted case-insensitively: as many cells as the list has
\* items, each holding a value.
C2_LongListRangeHoldsSortedSource ==
    \A c \in 0..(Len(names) - 1) : \A n \in validations_of(c) :
        (CatalogBuilt /\ field_of(c).long_list) =>
            LET options == data_sheet.validations[n].options
                source == field_of(c).validation.source
                name == Table_ \o capitalize(replace_space(names[c + 1]))
                tables == variable_sheet_obj.sheet.tables
            IN  /\ "source" \notin DOMAIN options
                /\ options.value = IndirectOpen \o name \o IndirectClose
                /\ \E k \in 1..Len(tables) :
                      /\ tables[k].name = name
                      /\ tables[k].last_row - tables[k].first_row + 1
                            = Len(source)
                      /\ TableFilled(tables[k])
                      /\ IsSortedCopy(
                            [r \in 1..Len(source) |->
                                cell_value(variable_sheet_obj.sheet,
                                           tables[k].first_row + r - 1,
                                           tables[k].first_col)],
                            source)

\* C3: once the turn of a column whose field has no validation has been
\* run, the column has no validation, it has its header, its key and its
\* width and format, and the run has not been ended by an exception.
C3_FieldWithoutValidationRenders ==
    \A c \in 0..(Len(names) - 1) :
        (Handled(c) /\ is_empty(field_of(c).validation)) =>
            /\ validations_of(c) = {}
            /\ has_cell(data_sheet, title_row, c)
            /\ has_cell(data_sheet, parameter_row, c)
            /\ c \in DOMAIN data_sheet.columns
            /\ data_sheet.columns[c].width = field_of(c).width
            /\ pc # "aborted"

\* The Metadata sheet has been written.
MetadataWritten ==
    metadata /\ pc \in {"columns", "data", "finish", "closed", "aborted"}

\* C4: once write_metadata has run, whatever the metadata table, the value
\* cell of every metadata field whose prompt is longer than 255 characters
\* has a validation whose prompt is the first 252 characters and '...'.
C4_LongMetadataPromptIsCut ==
    MetadataWritten =>
        \A k \in 1..Len(metadata_fields) :
            LET valid == field_dict[metadata_fields[k]].validation
            IN  (~ is_empty(valid) /\ Len(valid.input_message) > 255) =>
                    \E n \in 1..Len(meta_sheet.validations) :
                        LET v == meta_sheet.validations[n]
                        IN  /\ v.first_row = k - 1 /\ v.last_row = k - 1
                            /\ v.first_col = 2 /\ v.last_col = 2
                            /\ v.options.input_message
                                  = SubSeq(valid.input_message, 1, 252)
                                        \o <<".", ".", ".">>

in_workbook(name) == \E n \in 1..Len(workbook.sheets) : workbook.sheets[n] = name

\* C5, as claimed: a closed workbook has the Data sheet, and it has the
\* Variables sheet only if a long_list field was registered.
C5_VariablesSheetOnlyWithLongList ==
    workbook.closed =>
        /\ in_workbook("Data")
        /\ in_workbook("Variables") => variable_sheet_obj.current_column > 0

\* C5, amended: a closed workbook has the Data sheet and the hidden
\* Variables sheet, whether or not a long_list field was registered; the
\* Metadata and Conversion sheets are there exactly when asked for.
C5_VariablesSheetAlways ==
    workbook.closed =>
        /\ in_workbook("Data")
        /\ in_workbook("Variables")
        /\ variable_sheet_obj.sheet.hidden
        /\ in_workbook("Metadata") <=> metadata
        /\ in_workbook("Conversion") <=> conversions
        /\ Len(variable_sheet_obj.sheet.tables)
              = variable_sheet_obj.current_column

C5_Witness ==
    /\ workbook.closed
    /\ variable_sheet_obj.current_column = 0
    /\ Len(names) > 0
    /\ in_workbook("Variables")

\* The data loop of make_xlsx is over.
DataWritten == pc \in {"finish", "closed"} /\ data.is_frame

\* xlsxwriter raises while writing data column c (1-based).
Fails(c) == \E k \in 1..Len(data.values[c]) : ~ data.values[c][k].ok

\* Sheet column c - 1 holds, from the data start row down, exactly the
\* values of data column c whose numbers are in rows.
HoldsRows(c, rows) ==
    /\ \A k \in rows :
          /\ has_cell(data_sheet, start_row + k - 1, c - 1)
          /\ cell_value(data_sheet, start_row + k - 1, c - 1)
                = data.values[c][k]
    /\ \A p \in DOMAIN data_sheet.cells :
          (p[2] = c - 1 /\ p[1] >= start_row) => (p[1] - start_row + 1) \in rows

\* C6, as claimed: after the data loop, a data column whose write failed has
\* no data cell, every other data column is written in full from row 3, and
\* no exception has ended the run.
C6_FailedColumnLeftEmpty ==
    DataWritten =>
        /\ error = "none"
        /\ \A c \in 1..Len(data.columns) :
              IF Fails(c) THEN HoldsRows(c, {})
              ELSE HoldsRows(c, 1..Len(data.values[c]))

\* C6, amended: after the data loop, a data column whose write failed keeps
\* the values that precede its first unwritable value and nothing else,
\* every other data column is written in full from row 3, no exception has
\* ended the run, and the closed workbook has its header row, frozen panes
\* and hidden parameter row.
C6_FailedColumnKeepsPrefix ==
    /\ DataWritten =>
          /\ error = "none"
          /\ \A c \in 1..Len(data.columns) :
                HoldsRows(c, {k \in 1..Len(data.values[c]) :
                                 \A j \in 1..k : data.values[c][j].ok})
    /\ pc = "aborted" => col_num = 0
    /\ pc = "closed" =>
          /\ workbook.closed
          /\ has_cell(data_sheet, 0, 0)
          /\ data_sheet.panes = <<start_row, 0>>
          /\ data_sheet.rows[parameter_row].hidden

C6_Witness ==
    /\ pc = "closed"
    /\ data.is_frame
    /\ Len(data.columns) = 2
    /\ Fails(1)
    /\ data.values[1][1].ok
    /\ has_cell(data_sheet, start_row, 0)
    /\ ~ has_cell(data_sheet, start_row + 1, 0)
    /\ has_cell(data_sheet, start_row + 1, 1)

\* The catalog as make_dict_of_fields returned it.
BuiltCatalog == make_dict_of_fields(fields)
BuiltDicts == CatalogDicts(fields, [r \in {DefaultRef} |-> EmptyDict])

\* C7: once built, every Field of the catalog keeps the name, disp_name,
\* validation, cell_format, width and long_list it was built with, also
\* while and after make_xlsx runs.
C7_CatalogUnchangedByRender ==
    CatalogBuilt =>
        \A key \in DOMAIN field_dict :
            LET now == FieldValue(field_dict[key], dicts)
                built == FieldValue(BuiltCatalog[key], BuiltDicts)
            IN  /\ now.name = built.name
                /\ now.disp_name = built.disp_name
                /\ dict_eq(now.validation, built.validation)
                /\ dict_eq(now.cell_format, built.cell_format)
                /\ now.width = built.width
                /\ now.long_list = built.long_list

\* C8: the probing loop ends, and the number it selects is at least 1, names
\* no existing file, and every smaller number from 1 on names an existing
\* file.
C8_ProbeSelectsSmallestFree ==
    /\ [](ppc = "selected" =>
            /\ path >= 1
            /\ path \notin existing
            /\ \A n \in 1..(path - 1) : n \in existing)
    /\ <>(ppc = "selected")

C8_Witness ==
    /\ ppc = "selected"
    /\ path = 3
    /\ \E n \in existing : n > path

\* C9: in the catalog, the Field of a descriptor that has no width has the
\* length of its disp_name as width, and the Field of a descriptor that has
\* a width has that width.
C9_DefaultWidthIsNameLength ==
    CatalogBuilt =>
        \A n \in 1..Len(fields) :
            LET width == field_dict[fields[n].name].width
            IN  IF "width" \in DOMAIN fields[n]
                THEN width = fields[n].width
                ELSE width = Len(fields[n].disp_name)

C9_Witness ==
    /\ pc = "write_file"
    /\ \E n \in 1..Len(fields) :
          /\ "width" \notin DOMAIN fields[n]
          /\ Len(fields[n].disp_name) # DefaultWidth
          /\ field_dict[fields[n].name].width = Len(fields[n].disp_name)
    /\ \E n \in 1..Len(fields) :
          /\ "width" \in DOMAIN fields[n]
          /\ field_dict[fields[n].name].width = fields[n].width

\* C10: after the data loop, every data cell of the Data sheet (row 3 and
\* below) stands in a column whose parameter-row key is the name of the data
\* column the value comes from.
C10_DataUnderItsOwnKey ==
    DataWritten =>
        \A p \in DOMAIN data_sheet.cells :
            p[1] >= start_row =>
                /\ has_cell(data_sheet, parameter_row, p[2])
                /\ cell_value(data_sheet, parameter_row, p[2])
                      = data_sheet.cells[p].value.of

\* The call main.py makes: the field list is the table's list of columns.
\* Then every data cell stands under its own key.
AlignedDataUnderItsOwnKey ==
    (DataWritten /\ names = data.columns) =>
        \A p \in DOMAIN data_sheet.cells :
            p[1] >= start_row =>
                /\ has_cell(data_sheet, parameter_row, p[2])
                /\ cell_value(data_sheet, parameter_row, p[2])
                      = data_sheet.cells[p].value.of

(***************************************************************************)
(* Variable_sheet.add_row: the cursor and the table names                   *)
(***************************************************************************)
\* The keys add_row has been called with so far, in the order of the calls:
\* the long_list fields among the columns whose turn has been run.
list_calls ==
    LET is_long_list(f) == field_dict[f].long_list
    IN  SelectSeq(SubSeq(names, 1, ii), is_long_list)

\* The n-th call wrote its key to row 0 of column n - 1 and registered its
\* table on that column.
CallWroteColumn(n) ==
    LET sheet == variable_sheet_obj.sheet
    IN  /\ has_cell(sheet, 0, n - 1)
        /\ cell_value(sheet, 0, n - 1) = list_calls[n]
        /\ sheet.tables[n].first_col = n - 1
        /\ sheet.tables[n].last_col = n - 1
        /\ sheet.tables[n].name = table_name(list_calls[n])

\* The cursor counts the calls, and the n-th call wrote column n - 1.
CursorCountsCalls ==
    /\ variable_sheet_obj.current_column = Len(list_calls)
    /\ Len(variable_sheet_obj.sheet.tables) = Len(list_calls)
    /\ \A n \in 1..Len(list_calls) : CallWroteColumn(n)

\* C11: after any sequence of add_row calls in one workbook, the n-th call
\* has written to column n - 1, current_column is the number of calls, and
\* two calls with distinct field keys have registered distinct table names.
C11_ListCallsKeepCursorAndDistinctNames ==
    /\ CursorCountsCalls
    /\ \A n, m \in 1..Len(list_calls) :
          list_calls[n] # list_calls[m] =>
              variable_sheet_obj.sheet.tables[n].name
                  # variable_sheet_obj.sheet.tables[m].name

\* The part about the cursor, which holds whatever the keys are.
ListCallsKeepCursor == CursorCountsCalls

\* Two calls with distinct keys and one table name have been made.
TwoKeysOneTableName ==
    \E n, m \in 1..Len(list_calls) :
        /\ list_calls[n] # list_calls[m]
        /\ variable_sheet_obj.sheet.tables[n].name
              = variable_sheet_obj.sheet.tables[m].name

====
